---- MODULE Spec2Model ----
(***************************************************************************)
(* split_by_delimiter (text_engine.cpp): a left-to-right scan that cuts a  *)
(* text at successive occurrences of a literal delimiter.                  *)
(*                                                                         *)
(* A string is a sequence of one-character strings.  Positions (start,     *)
(* end) are 0-based as in the C++ source.  Every call owns a frame of      *)
(* locals (text, delimiter, result, start, end) and a position pc:         *)
(*   "loop"     about to evaluate the while condition        (line 9)      *)
(*   "push"     about to run result.push_back(substr(..))    (line 10)     *)
(*   "advance"  about to run start = end + delimiter.length  (line 11)     *)
(*   "tail"     about to push the last segment and return    (lines 13-14) *)
(*   "done"     returned                                                   *)
(*   "out_of_range", "bad_alloc"   left by an exception                    *)
(*   "idle"     frame not in use                                           *)
(***************************************************************************)
EXTENDS Integers, Sequences, FiniteSets, TLC

VARIABLES text, delimiter, result, start, end, pc, iters

vars == <<text, delimiter, result, start, end, pc, iters>>

(* ------------------------------ bounds --------------------------------- *)
MaxLen == 5
MaxDelimLen == 3
ConcMaxLen == 3
ConcMaxDelimLen == 2
\* Number of elements the result vector can hold before an allocation fails.
MemCap == 9

Alphabet == {"a", ","}
Procs == {1, 2}

StringsUpTo(n) == UNION {[1..k -> Alphabet] : k \in 0..n}

\* The calls named in the documentation, over a wider alphabet.
ExampleCalls ==
    { <<<<"a", ",", ",", "b">>, <<",">>>>,
      <<<<",", "a", ",">>, <<",">>>>,
      <<<<"a", ":", ":", "b", ":", ":", "c">>, <<":", ":">>>>,
      <<<<"a", ":", "b">>, <<":", ":">>>>,
      <<<<"a", "a", "a">>, <<"a", "a">>>> }

Calls == (StringsUpTo(MaxLen) \X StringsUpTo(MaxDelimLen)) \cup ExampleCalls

ConcCalls ==
    (StringsUpTo(ConcMaxLen) \X (StringsUpTo(ConcMaxDelimLen) \ {<<>>}))
        \cup {c \in ExampleCalls : Len(c[1]) <= ConcMaxLen}

(* --------------------------- std::string ------------------------------- *)
\* std::string::npos, the "not found" / "to the end" value.
NPOS == -1

SetMin(S) == CHOOSE x \in S : \A y \in S : x <= y

\* A search that accepts a position as soon as the first character of the
\* delimiter is there.
FindFirstChar(s, d, pos) ==
    LET cands == {p \in pos..(Len(s) - 1) : d # <<>> /\ s[p + 1] = d[1]}
    IN  IF cands = {} THEN NPOS ELSE SetMin(cands)

\* A search that never looks at the last possible position.
FindNoTailMatch(s, d, pos) ==
    LET cands == {p \in pos..(Len(s) - Len(d) - 1) :
                     \A k \in 1..Len(d) : s[p + k] = d[k]}
    IN  IF cands = {} THEN NPOS ELSE SetMin(cands)

\* s.find(d, pos): the lowest position p >= pos with p + |d| <= |s| at which
\* every character of d is found, npos when there is none.
Find(s, d, pos) ==
    LET cands == {p \in pos..(Len(s) - Len(d)) :
                     \A k \in 1..Len(d) : s[p + k] = d[k]}
    IN  IF cands = {} THEN NPOS ELSE SetMin(cands)

\* s.substr(pos, n) throws std::out_of_range exactly when pos > size().
SubstrThrows(s, pos) == pos > Len(s)

\* A substring that takes the character at its far end as well.
SubstrInclusive(s, pos, n) ==
    LET m == IF n = NPOS THEN NPOS ELSE n + 1
        rlen == IF m = NPOS \/ m > Len(s) - pos THEN Len(s) - pos ELSE m
    IN  SubSeq(s, pos + 1, pos + rlen)

\* s.substr(pos, n) for pos <= size(): min(n, size() - pos) characters from
\* pos; n = npos (the default argument) takes everything up to the end.
Substr(s, pos, n) ==
    LET rlen == IF n = NPOS \/ n > Len(s) - pos THEN Len(s) - pos ELSE n
    IN  SubSeq(s, pos + 1, pos + rlen)

(* ------------------------ split_by_delimiter --------------------------- *)
\* A push that skips empty segments.
PushBackNonEmpty(res, seg) == IF seg = <<>> THEN res ELSE Append(res, seg)

\* result.push_back(seg)
PushBack(res, seg) == Append(res, seg)

\* Resuming one character after the start of the match.
NextStartOneChar(e, d) == e + 1

\* Resuming one character past the end of the match.
NextStartSkip(e, d) == e + Len(d) + 1

\* start = end + delimiter.length()
NextStart(e, d) == e + Len(d)

\* A write to a variable that all calls share.
StoreShared(f, i, v) == [j \in DOMAIN f |-> v]

\* A write to a local of call i: result, start and end are automatic
\* variables of the call.
StoreLocal(f, i, v) == [f EXCEPT ![i] = v]

NoCall == <<>>

\* The frames at function entry (lines 5-7): result empty, start = end = 0.
\* c[i] is the <<text, delimiter>> call i was given, NoCall for an unused frame.
InitFrames(c) ==
    /\ text = [i \in Procs |-> IF c[i] = NoCall THEN <<>> ELSE c[i][1]]
    /\ delimiter = [i \in Procs |-> IF c[i] = NoCall THEN <<>> ELSE c[i][2]]
    /\ result = [i \in Procs |-> <<>>]
    /\ start = [i \in Procs |-> 0]
    /\ end = [i \in Procs |-> 0]
    /\ pc = [i \in Procs |-> IF c[i] = NoCall THEN "idle" ELSE "loop"]
    /\ iters = [i \in Procs |-> 0]

\* One call in progress.
Init == \E call \in Calls : InitFrames([i \in Procs |-> IF i = 1 THEN call ELSE NoCall])

\* Two calls in progress, on separate threads.
InitConc == \E c1 \in ConcCalls : \E c2 \in ConcCalls : InitFrames(<<c1, c2>>)

\* Line 9: end = text.find(delimiter, start); the loop is entered unless
\* the search returned npos.
LoopCond(i) ==
    /\ pc[i] = "loop"
    /\ LET e == Find(text[i], delimiter[i], start[i])
       IN  /\ end' = StoreLocal(end, i, e)
           /\ pc' = [pc EXCEPT ![i] = IF e # NPOS THEN "push" ELSE "tail"]
    /\ UNCHANGED <<text, delimiter, result, start, iters>>

\* Line 10: result.push_back(text.substr(start, end - start)).
PushSegment(i) ==
    /\ pc[i] = "push"
    /\ IF SubstrThrows(text[i], start[i])
         THEN /\ pc' = [pc EXCEPT ![i] = "out_of_range"]
              /\ UNCHANGED result
         ELSE IF Len(result[i]) >= MemCap
         THEN /\ pc' = [pc EXCEPT ![i] = "bad_alloc"]
              /\ UNCHANGED result
         ELSE /\ result' = StoreLocal(result, i,
                     PushBack(result[i], Substr(text[i], start[i], end[i] - start[i])))
              /\ pc' = [pc EXCEPT ![i] = "advance"]
    /\ UNCHANGED <<text, delimiter, start, end, iters>>

\* Line 11: start = end + delimiter.length(); the iteration is complete.
AdvanceStart(i) ==
    /\ pc[i] = "advance"
    /\ start' = StoreLocal(start, i, NextStart(end[i], delimiter[i]))
    /\ iters' = [iters EXCEPT ![i] = @ + 1]
    /\ pc' = [pc EXCEPT ![i] = "loop"]
    /\ UNCHANGED <<text, delimiter, result, end>>

\* Lines 13-14: result.push_back(text.substr(start)); return result.
PushTail(i) ==
    /\ pc[i] = "tail"
    /\ IF SubstrThrows(text[i], start[i])
         THEN /\ pc' = [pc EXCEPT ![i] = "out_of_range"]
              /\ UNCHANGED result
         ELSE IF Len(result[i]) >= MemCap
         THEN /\ pc' = [pc EXCEPT ![i] = "bad_alloc"]
              /\ UNCHANGED result
         ELSE /\ result' = StoreLocal(result, i,
                     PushBack(result[i], Substr(text[i], start[i], NPOS)))
              /\ pc' = [pc EXCEPT ![i] = "done"]
    /\ UNCHANGED <<text, delimiter, start, end, iters>>

Next ==
    \/ \E i \in Procs : LoopCond(i)
    \/ \E i \in Procs : PushSegment(i)
    \/ \E i \in Procs : AdvanceStart(i)
    \/ \E i \in Procs : PushTail(i)

Spec == Init /\ [][Next]_vars

SpecConc == InitConc /\ [][Next]_vars

\* The whole call run on its own, from position s with acc already pushed.
RECURSIVE SplitFrom(_, _, _, _)
SplitFrom(t, d, s, acc) ==
    LET e == Find(t, d, s)
    IN  IF e # NPOS
          THEN SplitFrom(t, d, NextStart(e, d), PushBack(acc, Substr(t, s, e - s)))
          ELSE PushBack(acc, Substr(t, s, NPOS))

split_by_delimiter(t, d) == SplitFrom(t, d, 0, <<>>)

(* ------------------------- reference notions --------------------------- *)
Ended == {"done", "out_of_range", "bad_alloc", "invalid_argument"}

Returned(i) == pc[i] = "done"

\* The segments with d put between consecutive ones.
RECURSIVE Join(_, _)
Join(segs, d) ==
    IF segs = <<>> THEN <<>>
    ELSE IF Len(segs) = 1 THEN segs[1]
    ELSE segs[1] \o d \o Join(Tail(segs), d)

\* d is written in t at 0-based position p.
OccursAt(t, d, p) ==
    /\ p >= 0
    /\ p + Len(d) <= Len(t)
    /\ SubSeq(t, p + 1, p + Len(d)) = d

Occurs(t, d) == \E p \in 0..Len(t) : OccursAt(t, d, p)

\* Positions of the non-overlapping occurrences of a non-empty d in t, by a
\* left-to-right scan from p that resumes right after each match.
RECURSIVE MatchesFrom(_, _, _)
MatchesFrom(t, d, p) ==
    IF p + Len(d) > Len(t) THEN <<>>
    ELSE IF OccursAt(t, d, p) THEN <<p>> \o MatchesFrom(t, d, p + Len(d))
    ELSE MatchesFrom(t, d, p + 1)

\* The one-character strings of t.
Chars(t) == [k \in 1..Len(t) |-> <<t[k]>>]

Contains(seg, d) == \E p \in 0..Len(seg) : OccursAt(seg, d, p)

(* ------------------------------ claims --------------------------------- *)

\* C1: round-trip law. For a non-empty delimiter, joining the returned
\* segments with the delimiter between consecutive ones gives back text.
RoundTripLaw ==
    \A i \in Procs :
        (Returned(i) /\ delimiter[i] # <<>>)
            => Join(result[i], delimiter[i]) = text[i]

RoundTripWitness ==
    \E i \in Procs :
        /\ Returned(i)
        /\ Len(delimiter[i]) >= 2
        /\ Len(result[i]) >= 3
        /\ Join(result[i], delimiter[i]) = text[i]

\* C2: segment count law. For a non-empty delimiter the number of returned
\* segments is 1 plus the number of non-overlapping occurrences of the
\* delimiter, counted left to right resuming right after each match.
SegmentCountLaw ==
    \A i \in Procs :
        (Returned(i) /\ delimiter[i] # <<>>)
            => Len(result[i]) = 1 + Len(MatchesFrom(text[i], delimiter[i], 0))

SegmentCountWitness ==
    \E i \in Procs :
        /\ Returned(i)
        /\ Len(delimiter[i]) = 2
        /\ OccursAt(text[i], delimiter[i], 0)
        /\ OccursAt(text[i], delimiter[i], 1)
        /\ OccursAt(text[i], delimiter[i], 3)
        /\ Len(result[i]) = 3

\* C3: empty-delimiter policy. A call with an empty delimiter ends in one of
\* the three documented outcomes: an InvalidArgument error, the individual
\* characters of text, or the whole text as a single segment.
EmptyDelimiterPolicy ==
    \A i \in Procs :
        (pc[i] \in Ended /\ delimiter[i] = <<>>)
            => \/ pc[i] = "invalid_argument"
               \/ Returned(i) /\ result[i] = Chars(text[i])
               \/ Returned(i) /\ result[i] = <<text[i]>>

\* C4: the call terminates within a number of loop iterations bounded by
\* the length of text, for every text and every delimiter: the iteration
\* count never exceeds Len(text) and the call is never cut short by an
\* exception.
BoundedByInputSize ==
    \A i \in Procs :
        /\ iters[i] <= Len(text[i])
        /\ pc[i] \in Ended => Returned(i)

\* C5: no-delimiter case. When a non-empty delimiter does not occur in
\* text, the call returns exactly one element, equal to text.
NoDelimiterCase ==
    \A i \in Procs :
        (pc[i] \in Ended /\ delimiter[i] # <<>> /\ ~Occurs(text[i], delimiter[i]))
            => Returned(i) /\ result[i] = <<text[i]>>

NoDelimiterWitness ==
    \E i \in Procs :
        /\ Returned(i)
        /\ Len(delimiter[i]) >= 2
        /\ ~Occurs(text[i], delimiter[i])
        /\ Occurs(text[i], <<delimiter[i][1]>>)
        /\ result[i] = <<text[i]>>

\* C6: the returned sequence is never empty for a non-empty delimiter, and
\* for the empty text it is exactly one empty string.
NeverEmpty ==
    \A i \in Procs :
        (Returned(i) /\ delimiter[i] # <<>>)
            => /\ Len(result[i]) >= 1
               /\ text[i] = <<>> => result[i] = << <<>> >>

NeverEmptyWitness ==
    \E i \in Procs :
        /\ Returned(i)
        /\ delimiter[i] # <<>>
        /\ text[i] = <<>>
        /\ result[i] = << <<>> >>

\* C7: empty segments are kept. For a non-empty delimiter there is one
\* segment per matched occurrence plus one; a match at position 0 gives an
\* empty first segment, a match ending at the end of text gives an empty
\* last segment, two adjacent matches give an empty segment between them;
\* "a,,b" by "," gives ["a", "", "b"] and ",a," by "," gives ["", "a", ""].
EmptySegmentsKept ==
    \A i \in Procs :
        (Returned(i) /\ delimiter[i] # <<>>) =>
            LET t == text[i]
                d == delimiter[i]
                r == result[i]
                M == MatchesFrom(t, d, 0)
            IN  /\ Len(r) = Len(M) + 1
                /\ (M # <<>> /\ M[1] = 0) => r[1] = <<>>
                /\ (M # <<>> /\ M[Len(M)] + Len(d) = Len(t)) => r[Len(r)] = <<>>
                /\ \A k \in 1..(Len(M) - 1) :
                       M[k + 1] = M[k] + Len(d) => r[k + 1] = <<>>
                /\ (t = <<"a", ",", ",", "b">> /\ d = <<",">>)
                       => r = << <<"a">>, <<>>, <<"b">> >>
                /\ (t = <<",", "a", ",">> /\ d = <<",">>)
                       => r = << <<>>, <<"a">>, <<>> >>

EmptySegmentsWitness ==
    \E i \in Procs :
        /\ Returned(i)
        /\ text[i] = <<"a", ",", ",", "b">>
        /\ delimiter[i] = <<",">>
        /\ result[i] = << <<"a">>, <<>>, <<"b">> >>

\* C8: concurrent calls do not interfere. However the steps of two calls
\* are interleaved, each call returns what it returns when run alone.
NoInterference ==
    \A i \in Procs :
        Returned(i) => result[i] = split_by_delimiter(text[i], delimiter[i])

NoInterferenceWitness ==
    /\ Returned(1)
    /\ Len(result[1]) >= 2
    /\ pc[2] = "advance"
    /\ iters[2] >= 1
    /\ text[1] # text[2]
    /\ delimiter[1] # delimiter[2]

\* C9: matching is leftmost, whole-delimiter and non-overlapping. For a
\* non-empty delimiter every search starts at the end of the previous match
\* (0 for the first) and finds the first whole occurrence at or after it;
\* no returned segment contains the delimiter; "aaa" by "aa" gives
\* ["", "a"], "a::b::c" by "::" gives ["a", "b", "c"] and a lone ":" of
\* "a:b" does not split by "::".
LeftmostNonOverlapping ==
    \A i \in Procs :
        (delimiter[i] # <<>> /\ pc[i] # "idle") =>
            LET t == text[i]
                d == delimiter[i]
                r == result[i]
            IN  /\ pc[i] = "loop" =>
                       \/ iters[i] = 0 /\ start[i] = 0
                       \/ iters[i] > 0 /\ OccursAt(t, d, end[i])
                                       /\ start[i] = end[i] + Len(d)
                /\ pc[i] \in {"push", "advance"} =>
                       /\ start[i] <= end[i]
                       /\ OccursAt(t, d, end[i])
                       /\ \A p \in start[i]..(end[i] - 1) : ~OccursAt(t, d, p)
                /\ pc[i] = "tail" =>
                       \A p \in start[i]..Len(t) : ~OccursAt(t, d, p)
                /\ Returned(i) =>
                       /\ \A k \in 1..Len(r) : ~Contains(r[k], d)
                       /\ (t = <<"a", "a", "a">> /\ d = <<"a", "a">>)
                              => r = << <<>>, <<"a">> >>
                       /\ (t = <<"a", ":", ":", "b", ":", ":", "c">> /\ d = <<":", ":">>)
                              => r = << <<"a">>, <<"b">>, <<"c">> >>
                       /\ (t = <<"a", ":", "b">> /\ d = <<":", ":">>)
                              => r = << <<"a", ":", "b">> >>

LeftmostWitness ==
    \E i \in Procs :
        /\ Returned(i)
        /\ text[i] = <<"a", "a", "a">>
        /\ delimiter[i] = <<"a", "a">>
        /\ result[i] = << <<>>, <<"a">> >>

\* C10: scan-position invariant. For a non-empty delimiter start always
\* lies in 0..Len(text), a found end lies in start..Len(text)-Len(delimiter),
\* no substr is called past the end of text, and every loop iteration
\* raises start by at least Len(delimiter).
ScanPositionInvariant ==
    /\ [](\A i \in Procs :
            delimiter[i] # <<>> =>
                /\ 0 <= start[i]
                /\ start[i] <= Len(text[i])
                /\ pc[i] \in {"push", "advance"} =>
                       /\ start[i] <= end[i]
                       /\ end[i] <= Len(text[i]) - Len(delimiter[i])
                /\ pc[i] \in {"push", "tail"} => ~SubstrThrows(text[i], start[i])
                /\ pc[i] # "out_of_range")
    /\ [][\A i \in Procs :
            (delimiter[i] # <<>> /\ pc[i] = "advance" /\ pc'[i] = "loop")
                => start'[i] >= start[i] + Len(delimiter[i])]_vars

ScanPositionWitness ==
    \E i \in Procs :
        /\ pc[i] = "tail"
        /\ Len(delimiter[i]) >= 2
        /\ iters[i] >= 2
        /\ start[i] = Len(text[i])

====
